---- MODULE Spec2Model ----
(***************************************************************************)
(* The greedy visit-to-caregiver assignment engine of scheduler/solver.py. *)
(*                                                                         *)
(* Time is counted in whole slots (one slot = one hour of the input        *)
(* timestamps), so the float arithmetic of the source (durations in hours, *)
(* their running sums, comparisons with max_hours) is exact.  A timestamp  *)
(* t lies on calendar day t \div SlotsPerDay; strftime("%A") gives that    *)
(* day's weekday name, modelled as the day number modulo DaysPerWeek.      *)
(***************************************************************************)
EXTENDS Integers, Sequences, FiniteSets, TLC

\* ------------------------------------------------------------------ bounds

\* Largest number of visits in one input to solve.
MaxVisits == 3

\* Number of weekday names strftime("%A") can return.
DaysPerWeek == 7

\* Slots in one calendar day (the granularity of the time grid).
SlotsPerDay == 2

Weekdays == 0 .. (DaysPerWeek - 1)

\* No caregiver (Python's None).
None == 0

\* ----------------------------------------------------- generic list helpers

RECURSIVE SumSeq(_)
SumSeq(s) == IF s = <<>> THEN 0 ELSE Head(s) + SumSeq(Tail(s))

\* Python's list.remove at a known position: the list without element i.
RemoveAt(s, i) == [j \in 1 .. (Len(s) - 1) |-> IF j < i THEN s[j] ELSE s[j + 1]]

\* Lexicographic strict order on two integer tuples of equal length.
RECURSIVE TupleLess(_, _)
TupleLess(a, b) ==
    IF a = <<>> THEN FALSE
    ELSE IF Head(a) # Head(b) THEN Head(a) < Head(b)
    ELSE TupleLess(Tail(a), Tail(b))

\* Python's sorted / list.sort: the stable ascending sort of s by Key(s[i]),
\* an integer tuple.  Element i goes to position 1 + the number of elements
\* that must precede it.
StableSort(s, Key(_)) ==
    LET n == Len(s)
        Before(j, i) == \/ TupleLess(Key(s[j]), Key(s[i]))
                        \/ (Key(s[j]) = Key(s[i]) /\ j < i)
        Rank(i) == 1 + Cardinality({j \in 1 .. n : Before(j, i)})
    IN  [p \in 1 .. n |-> s[CHOOSE i \in 1 .. n : Rank(i) = p]]

\* Python's min(list, key=...): the index of the first element with the
\* smallest key.
MinIndex(s, Key(_)) ==
    CHOOSE i \in 1 .. Len(s) :
        /\ \A j \in 1 .. Len(s) : ~TupleLess(Key(s[j]), Key(s[i]))
        /\ \A j \in 1 .. (i - 1) : TupleLess(Key(s[i]), Key(s[j]))

ByStart(v) == <<v.start>>
ByEnd(v) == <<v.end>>

\* ------------------------------------------------------------ the data model

\* (visit.end - visit.start).total_seconds() / 3600.0
visit_hours(visit) == visit.end - visit.start

\* visit.start.strftime("%A")
day_of(visit) == (visit.start \div SlotsPerDay) % DaysPerWeek

\* Visit.overlaps: [start, end) intersects [other.start, other.end).
overlaps(visit, other) == visit.start < other.end /\ other.start < visit.end

\* Availability.check_availability: the window covers the visit.
check_availability(av, visit) == av.from <= visit.start /\ visit.end <= av.to

\* defaultdict(list) for one caregiver: every weekday starts with no visit.
EmptyDaily == [d \in Weekdays |-> <<>>]

\* ------------------------------------------------------- EligibilityChecker

\* Plausible slips of is_caregiver_eligible_for_visit, used to show that the
\* properties below depend on each of its four tests.
eligible_without_hour_cap(caregiver, visit, current_hours, daily_visits) ==
    /\ visit.required_skill \in caregiver.skills
    /\ \E i \in DOMAIN caregiver.availability :
           check_availability(caregiver.availability[i], visit)
    /\ ~\E i \in DOMAIN daily_visits[day_of(visit)] :
           overlaps(visit, daily_visits[day_of(visit)][i])

eligible_without_overlap_test(caregiver, visit, current_hours, daily_visits) ==
    /\ visit.required_skill \in caregiver.skills
    /\ \E i \in DOMAIN caregiver.availability :
           check_availability(caregiver.availability[i], visit)
    /\ ~(current_hours + visit_hours(visit) > caregiver.max_hours)

eligible_without_skill_test(caregiver, visit, current_hours, daily_visits) ==
    /\ \E i \in DOMAIN caregiver.availability :
           check_availability(caregiver.availability[i], visit)
    /\ ~\E i \in DOMAIN daily_visits[day_of(visit)] :
           overlaps(visit, daily_visits[day_of(visit)][i])
    /\ ~(current_hours + visit_hours(visit) > caregiver.max_hours)

eligible_with_strict_hour_cap(caregiver, visit, current_hours, daily_visits) ==
    /\ visit.required_skill \in caregiver.skills
    /\ \E i \in DOMAIN caregiver.availability :
           check_availability(caregiver.availability[i], visit)
    /\ ~\E i \in DOMAIN daily_visits[day_of(visit)] :
           overlaps(visit, daily_visits[day_of(visit)][i])
    /\ ~(current_hours + visit_hours(visit) >= caregiver.max_hours)

\* solver.py 130-149.  daily_visits maps a weekday to the list of visits on it.
is_caregiver_eligible_for_visit(caregiver, visit, current_hours, daily_visits) ==
    /\ visit.required_skill \in caregiver.skills
    /\ \E i \in DOMAIN caregiver.availability :
           check_availability(caregiver.availability[i], visit)
    /\ ~\E i \in DOMAIN daily_visits[day_of(visit)] :
           overlaps(visit, daily_visits[day_of(visit)][i])
    /\ ~(current_hours + visit_hours(visit) > caregiver.max_hours)

\* ---------------------------------------------------- CustomerBlockAssigner

\* solver.py 67-78: the trial assignment of the whole block to one caregiver
\* on scratch copies of its hours and per-day lists; stops at the first
\* visit the caregiver is not eligible for.
RECURSIVE simulate_block(_, _, _, _)
simulate_block(caregiver, customer_visits, temp_hours, temp_daily) ==
    IF customer_visits = <<>>
    THEN [ok |-> TRUE, temp_daily |-> temp_daily]
    ELSE LET visit == Head(customer_visits)
         IN  IF ~is_caregiver_eligible_for_visit(caregiver, visit, temp_hours, temp_daily)
             THEN [ok |-> FALSE, temp_daily |-> temp_daily]
             ELSE simulate_block(
                      caregiver, Tail(customer_visits),
                      temp_hours + visit_hours(visit),
                      [temp_daily EXCEPT ![day_of(visit)] = Append(@, visit)])

\* solver.py 85-89: walk the day's visits, counting each change of
\* neighborhood from the last one seen.
RECURSIVE count_changes(_, _)
count_changes(current_neigh, rest) ==
    IF rest = <<>> THEN 0
    ELSE IF Head(rest).neighborhood # current_neigh
         THEN 1 + count_changes(Head(rest).neighborhood, Tail(rest))
         ELSE count_changes(current_neigh, Tail(rest))

\* solver.py 83-89: the switches of one day's visits, listed by start time.
switches_in_day(visits_in_day) ==
    IF Len(visits_in_day) > 1
    THEN LET visits_in_day_sorted == StableSort(visits_in_day, ByStart)
         IN  count_changes(visits_in_day_sorted[1].neighborhood,
                           Tail(visits_in_day_sorted))
    ELSE 0

\* solver.py 90-92: the visits of the customer already on the caregiver's record.
continuity_bonus(customer, daily_visits) ==
    SumSeq([d \in 1 .. DaysPerWeek |->
               Cardinality({i \in DOMAIN daily_visits[d - 1] :
                               daily_visits[d - 1][i].customer = customer})])

\* A slip of candidate_score: the switches of the weekdays the block touches only.
candidate_score_on_block_days(caregiver, customer, customer_visits, temp_daily, caregiver_hours, caregiver_daily_visits) ==
    << SumSeq([d \in 1 .. DaysPerWeek |->
                  IF \E i \in DOMAIN customer_visits : day_of(customer_visits[i]) = d - 1
                  THEN switches_in_day(temp_daily[d - 1]) ELSE 0]),
       caregiver_hours[caregiver.id],
       0 - continuity_bonus(customer, caregiver_daily_visits[caregiver.id]),
       caregiver.id >>

\* solver.py 81-94: the entry appended to possible_caregivers for a caregiver
\* whose trial succeeded and left the scratch lists temp_daily.
candidate_score(caregiver, customer, customer_visits, temp_daily, caregiver_hours, caregiver_daily_visits) ==
    << SumSeq([d \in 1 .. DaysPerWeek |-> switches_in_day(temp_daily[d - 1])]),
       caregiver_hours[caregiver.id],
       0 - continuity_bonus(customer, caregiver_daily_visits[caregiver.id]),
       caregiver.id >>

\* solver.py 65-94: possible_caregivers before it is sorted, in the order of
\* the caregivers list.
possible_caregivers_of(customer, customer_visits, caregivers_, caregiver_hours, caregiver_daily_visits) ==
    LET trials == [i \in DOMAIN caregivers_ |->
                      [caregiver |-> caregivers_[i],
                       trial |-> simulate_block(caregivers_[i], customer_visits,
                                                caregiver_hours[caregivers_[i].id],
                                                caregiver_daily_visits[caregivers_[i].id])]]
        passing == SelectSeq(trials, LAMBDA t : t.trial.ok)
    IN  [i \in 1 .. Len(passing) |->
            candidate_score(passing[i].caregiver, customer, customer_visits,
                            passing[i].trial.temp_daily,
                            caregiver_hours, caregiver_daily_visits)]

BySwitchesHoursBonus(x) == <<x[1], x[2], x[3]>>
ByHoursSwitchesBonus(x) == <<x[2], x[1], x[3]>>

\* A slip of sorted_possible_caregivers: hours ranked before switches.
sorted_hours_first(customer, customer_visits, caregivers_, caregiver_hours, caregiver_daily_visits) ==
    StableSort(possible_caregivers_of(customer, customer_visits, caregivers_,
                                      caregiver_hours, caregiver_daily_visits),
               ByHoursSwitchesBonus)

\* solver.py 65-96: possible_caregivers after the sort of line 96.
sorted_possible_caregivers(customer, customer_visits, caregivers_, caregiver_hours, caregiver_daily_visits) ==
    StableSort(possible_caregivers_of(customer, customer_visits, caregivers_,
                                      caregiver_hours, caregiver_daily_visits),
               BySwitchesHoursBonus)

\* solver.py 54-98: the id of the best caregiver for the block, or None.
find_best_caregiver_for_customer(customer, customer_visits, caregivers_, caregiver_hours, caregiver_daily_visits) ==
    LET possible == sorted_possible_caregivers(customer, customer_visits, caregivers_,
                                               caregiver_hours, caregiver_daily_visits)
    IN  IF possible # <<>> THEN possible[1][4] ELSE None

\* ------------------------------------------------------ SingleVisitFallback

\* A slip of travel_bonus: the earliest visit of the weekday (index 0) is
\* compared instead of the last one.
travel_bonus_from_first(visit, daily_visits) ==
    LET last_same_day == StableSort(daily_visits[day_of(visit)], ByEnd)
    IN  IF last_same_day # <<>> /\ last_same_day[1].neighborhood = visit.neighborhood
        THEN 1 ELSE 0

\* solver.py 116-122: 1 when the last visit (by end time) already on the
\* visit's weekday is in the visit's neighborhood.
travel_bonus(visit, daily_visits) ==
    LET last_same_day == StableSort(daily_visits[day_of(visit)], ByEnd)
    IN  IF last_same_day # <<>> /\ last_same_day[Len(last_same_day)].neighborhood = visit.neighborhood
        THEN 1 ELSE 0

ByBonusHours(x) == <<x[1], x[2]>>

\* solver.py 112-125: the eligible list after the sort of line 125.
sorted_eligible(visit, caregivers_, caregiver_hours, caregiver_daily_visits) ==
    LET can_take == SelectSeq(caregivers_, LAMBDA caregiver :
                        is_caregiver_eligible_for_visit(
                            caregiver, visit, caregiver_hours[caregiver.id],
                            caregiver_daily_visits[caregiver.id]))
    IN  StableSort([i \in 1 .. Len(can_take) |->
                       << 0 - travel_bonus(visit, caregiver_daily_visits[can_take[i].id]),
                          caregiver_hours[can_take[i].id],
                          can_take[i].id >>],
                   ByBonusHours)

\* solver.py 101-127: the id of the best caregiver for one visit, or None.
find_best_caregiver_for_visit(visit, caregivers_, caregiver_hours, caregiver_daily_visits) ==
    LET eligible_ == sorted_eligible(visit, caregivers_, caregiver_hours, caregiver_daily_visits)
    IN  IF eligible_ # <<>> THEN eligible_[1][3] ELSE None

\* ------------------------------------------------------------- RouteOrderer

\* The keys of a dict filled in the order of s: each value once, in the
\* order of its first appearance.
RECURSIVE dict_keys(_, _)
dict_keys(s, seen) ==
    IF s = <<>> THEN <<>>
    ELSE IF Head(s) \in seen THEN dict_keys(Tail(s), seen)
    ELSE <<Head(s)>> \o dict_keys(Tail(s), seen \cup {Head(s)})

\* list.remove(x): the position of the first element equal to x.
IndexOf(s, x) == CHOOSE i \in 1 .. Len(s) : s[i] = x /\ \A j \in 1 .. (i - 1) : s[j] # x

\* solver.py 181: the remaining visits of current's neighborhood that start
\* at or after its end.
same_neighborhood_after(current, to_assign_) ==
    SelectSeq(to_assign_, LAMBDA v : v.neighborhood = current.neighborhood /\ v.start >= current.end)

\* solver.py 186: the remaining visits that start at or after current's end.
starting_after(current, to_assign_) == SelectSeq(to_assign_, LAMBDA v : v.start >= current.end)

\* A slip of route_next: the neighborhood test of line 181 inverted.
route_next_other_neighborhood(current, to_assign_) ==
    LET other == SelectSeq(to_assign_, LAMBDA v :
                     v.neighborhood # current.neighborhood /\ v.start >= current.end)
        next_visits == IF other # <<>> THEN other
                       ELSE IF starting_after(current, to_assign_) # <<>>
                            THEN starting_after(current, to_assign_)
                            ELSE to_assign_
    IN  next_visits[MinIndex(next_visits, ByStart)]

\* solver.py 180-191: the visit that follows `current` in the day's sequence.
route_next(current, to_assign_) ==
    LET next_visits == IF same_neighborhood_after(current, to_assign_) # <<>>
                       THEN same_neighborhood_after(current, to_assign_)
                       ELSE IF starting_after(current, to_assign_) # <<>>
                            THEN starting_after(current, to_assign_)
                            ELSE to_assign_
    IN  next_visits[MinIndex(next_visits, ByStart)]

\* solver.py 179-194: the rest of the day's sequence after `current`.
RECURSIVE route_from(_, _)
route_from(current, to_assign_) ==
    IF to_assign_ = <<>> THEN <<>>
    ELSE LET next_visit == route_next(current, to_assign_)
         IN  <<next_visit>> \o route_from(next_visit, RemoveAt(to_assign_, IndexOf(to_assign_, next_visit)))

\* solver.py 172-194: RouteOrderer's sequence of one day's visits.
route_order(day_visits) ==
    IF day_visits = <<>> THEN <<>>
    ELSE LET current == day_visits[MinIndex(day_visits, ByStart)]
         IN  <<current>> \o route_from(current, RemoveAt(day_visits, IndexOf(day_visits, current)))

RECURSIVE Concat(_)
Concat(ss) == IF ss = <<>> THEN <<>> ELSE Head(ss) \o Concat(Tail(ss))

\* solver.py 163-198: the order in which assign_all_visits_to_caregiver
\* commits a block: the days' routes concatenated, then sorted by start.
block_commit_order(visits_) ==
    LET days == dict_keys([i \in 1 .. Len(visits_) |-> day_of(visits_[i])], {})
        ordered_visits ==
            Concat([k \in 1 .. Len(days) |->
                       route_order(SelectSeq(visits_, LAMBDA v : day_of(v) = days[k]))])
    IN  StableSort(ordered_visits, ByStart)

\* ------------------------------------------------------------------- solve

\* A slip of group_visits_by_customer: only consecutive visits of a customer
\* are grouped (itertools.groupby on an unsorted list).
RECURSIVE group_consecutive_runs(_)
group_consecutive_runs(visits_) ==
    IF visits_ = <<>> THEN <<>>
    ELSE LET rest == group_consecutive_runs(Tail(visits_))
             v == Head(visits_)
         IN  IF rest # <<>> /\ rest[1].customer = v.customer
             THEN <<[customer |-> v.customer, visits |-> <<v>> \o rest[1].visits]>> \o Tail(rest)
             ELSE <<[customer |-> v.customer, visits |-> <<v>>]>> \o rest

\* solver.py 46-51: the items of visits_by_customer, in insertion order.
group_visits_by_customer(visits_) ==
    LET customers == dict_keys([i \in 1 .. Len(visits_) |-> visits_[i].customer], {})
    IN  [k \in 1 .. Len(customers) |->
            [customer |-> customers[k],
             visits |-> SelectSeq(visits_, LAMBDA v : v.customer = customers[k])]]

\* ------------------------------------------------------------------ inputs

\* A label sequence is canonical when each new label is the smallest unused
\* one.  Customers and neighborhoods are only ever compared for equality, so
\* every input is a renaming of a canonical one.
Canonical(labels) ==
    \A i \in DOMAIN labels :
        labels[i] = 1 \/ \E j \in 1 .. (i - 1) : labels[j] >= labels[i] - 1

\* The canonical sequences of k labels among `labels`.
CanonicalSeqs(k, labels) == {f \in [1 .. k -> labels] : Canonical(f)}

\* The visits list (ids 1, 2, ... in list order) with the given columns.
MakeVisits(customers, spans, skills, neighborhoods) ==
    [i \in DOMAIN customers |->
        [id |-> i, customer |-> customers[i], start |-> spans[i][1], end |-> spans[i][2],
         required_skill |-> skills[i], neighborhood |-> neighborhoods[i]]]

\* The caregivers lists (ids 1, 2, ... in list order) whose i-th caregiver
\* has one of the profiles [skills, availability, max_hours] in profiles[i].
CaregiverLists(profiles) ==
    LET choices == {ch \in [DOMAIN profiles -> UNION {profiles[i] : i \in DOMAIN profiles}] :
                       \A i \in DOMAIN profiles : ch[i] \in profiles[i]}
    IN  {[i \in DOMAIN ch |->
            [id |-> i, skills |-> ch[i].skills, availability |-> ch[i].availability,
             max_hours |-> ch[i].max_hours]] : ch \in choices}

Always == <<[from |-> 0, to |-> 100]>>
FirstDayOnly == <<[from |-> 0, to |-> SlotsPerDay]>>
TwoWindows == <<[from |-> 0, to |-> 1], [from |-> SlotsPerDay, to |-> 100]>>
WeekLater == <<DaysPerWeek * SlotsPerDay, DaysPerWeek * SlotsPerDay + 1>>

TwoAlways ==
    CaregiverLists(<< [skills : {{1}}, availability : {Always}, max_hours : {6}],
                      [skills : {{1}}, availability : {Always}, max_hours : {6}] >>)

\* ------------------------------------------------------------------- state

VARIABLES
    visits,                  \* input: the visits list
    caregivers,              \* input: the caregivers list
    assignments,             \* the output list
    caregiver_hours,         \* Ledger: caregiver id -> assigned hours
    caregiver_daily_visits,  \* Ledger: caregiver id -> weekday -> visits
    visits_by_customer,      \* the items of the dict built at line 25
    pc,                      \* where solve is: customer | block | visit | assign | done
    ci,                      \* items of visits_by_customer already taken by the loop
    customer,                \* loop variable of line 27
    customer_visits,         \* the current block, sorted by start (line 28)
    pending,                 \* visits the running inner loop has still to take
    chosen,                  \* the caregiver id chosen last, or None
    possible_caregivers,     \* find_best_caregiver_for_customer's sorted list
    eligible,                \* find_best_caregiver_for_visit's sorted list
    block_winner,            \* history: customer -> caregiver chosen for its block
    to_assign,               \* RouteOrderer: the day's visits not yet ordered (line 172)
    ordered                  \* RouteOrderer: the day's sequence so far (line 177)

vars ==
    << visits, caregivers, visits_by_customer, assignments, caregiver_hours, caregiver_daily_visits, pc,
       ci, customer, customer_visits, pending, chosen, possible_caregivers, eligible,
       block_winner, to_assign, ordered >>

inputs == <<visits, caregivers, visits_by_customer>>
route == <<to_assign, ordered>>
ledger == <<assignments, caregiver_hours, caregiver_daily_visits>>

CaregiverIds == {caregivers[i].id : i \in DOMAIN caregivers}

\* solver.py 21-25: solve starts with an empty output and an empty Ledger.
Start ==
    /\ visits_by_customer = group_visits_by_customer(visits)
    /\ assignments = <<>>
    /\ caregiver_hours = [c \in CaregiverIds |-> 0]
    /\ caregiver_daily_visits = [c \in CaregiverIds |-> EmptyDaily]
    /\ pc = "customer"
    /\ ci = 0
    /\ customer = 0
    /\ customer_visits = <<>>
    /\ pending = <<>>
    /\ chosen = None
    /\ possible_caregivers = <<>>
    /\ eligible = <<>>
    /\ block_winner = [c \in {visits[i].customer : i \in DOMAIN visits} |-> None]
    /\ to_assign = <<>>
    /\ ordered = <<>>

\* The inputs of up to n visits with the given spans [start, end), required
\* skills and neighborhoods, and one of the given caregivers lists.
InputsUpTo(n, spans, skills, neighborhoods, caregiver_lists) ==
    \E k \in 1 .. n :
        \E customers \in CanonicalSeqs(k, 1 .. k), visit_spans \in [1 .. k -> spans],
           visit_skills \in [1 .. k -> skills],
           visit_neighborhoods \in CanonicalSeqs(k, neighborhoods) :
            /\ visits = MakeVisits(customers, visit_spans, visit_skills, visit_neighborhoods)
            /\ caregivers \in caregiver_lists

\* The inputs of exactly four visits of one skill whose customers are, in
\* list order, the given ones.
InputsOfFour(customers, spans, neighborhoods, caregiver_lists) ==
    \E visit_spans \in [1 .. 4 -> spans], visit_neighborhoods \in CanonicalSeqs(4, neighborhoods) :
        /\ visits = MakeVisits(customers, visit_spans, <<1, 1, 1, 1>>, visit_neighborhoods)
        /\ caregivers \in caregiver_lists

\* Core inputs: up to MaxVisits visits on three spans of the first day
\* (adjacent, nested) and one of the second, two neighborhoods, two
\* caregivers qualified for everything.
CoreInputs ==
    InputsUpTo(MaxVisits, {<<0, 1>>, <<1, 2>>, <<0, 2>>, <<2, 3>>}, {1}, {1, 2}, TwoAlways)

\* Timing inputs: up to three visits, with a span that crosses midnight, and
\* caps of 2, 3 or 6 hours.
TimingInputs ==
    InputsUpTo(3, {<<0, 1>>, <<1, 2>>, <<0, 2>>, <<1, 3>>, <<2, 3>>}, {1}, {1, 2},
               CaregiverLists(<< [skills : {{1}}, availability : {Always}, max_hours : {2, 6}],
                                 [skills : {{1}}, availability : {Always}, max_hours : {3, 6}] >>))

\* Qualification inputs: up to three visits requiring one of two skills, two
\* caregivers with either or both skills, available always or in part.
QualificationInputs ==
    InputsUpTo(3, {<<0, 1>>, <<2, 3>>}, {1, 2}, {1},
               CaregiverLists(<< [skills : {{1}, {1, 2}}, availability : {Always, FirstDayOnly}, max_hours : {6}],
                                 [skills : {{2}, {1, 2}}, availability : {Always, TwoWindows}, max_hours : {6}] >>))

\* Weekly inputs: up to three visits on the first day and on the same
\* weekday one week later; one, or three equally qualified caregivers.
WeeklyInputs ==
    InputsUpTo(3, {<<0, 1>>, <<1, 2>>, WeekLater}, {1}, {1, 2},
               CaregiverLists(<< [skills : {{1}}, availability : {Always}, max_hours : {1, 6}] >>)
               \cup CaregiverLists(<< [skills : {{1}}, availability : {Always}, max_hours : {6}],
                                      [skills : {{1}}, availability : {Always}, max_hours : {1}],
                                      [skills : {{1}}, availability : {Always}, max_hours : {6}] >>))

\* Three-customer inputs: a customer with two visits, then two customers with
\* one visit each.
ThreeCustomerInputs ==
    InputsOfFour(<<1, 1, 2, 3>>, {<<0, 1>>, <<1, 2>>, <<0, 2>>, <<2, 3>>}, {1, 2}, TwoAlways)

\* Two-block inputs: two customers with two visits each, interleaved in the
\* visits list, on one weekday of two consecutive weeks.
TwoBlockInputs ==
    InputsOfFour(<<1, 2, 1, 2>>, {<<0, 1>>, <<1, 2>>, WeekLater}, {1, 2}, TwoAlways)

Init ==
    /\ \/ CoreInputs
       \/ TimingInputs
       \/ QualificationInputs
       \/ WeeklyInputs
       \/ ThreeCustomerInputs
       \/ TwoBlockInputs
    /\ Start

\* solver.py 202-216: the only mutation of the output and the Ledger.
assign_visit(visit, caregiver_id) ==
    /\ assignments' = Append(assignments, [visit_id |-> visit.id, caregiver_id |-> caregiver_id])
    /\ caregiver_hours' = [caregiver_hours EXCEPT ![caregiver_id] = @ + visit_hours(visit)]
    /\ caregiver_daily_visits' =
           [caregiver_daily_visits EXCEPT ![caregiver_id][day_of(visit)] = Append(@, visit)]

\* The block of the next item of visits_by_customer, sorted by start (27-28).
NextGroup == visits_by_customer[ci + 1]
NextBlock == StableSort(NextGroup.visits, ByStart)

\* solver.py 27-35: a caregiver can take the whole block; the block will be
\* committed to it in block_commit_order.
BlockChosen ==
    /\ pc = "customer"
    /\ ci < Len(visits_by_customer)
    /\ LET best == find_best_caregiver_for_customer(
                       NextGroup.customer, NextBlock, caregivers,
                       caregiver_hours, caregiver_daily_visits)
       IN  /\ best # None
           /\ chosen' = best
           /\ block_winner' = [block_winner EXCEPT ![NextGroup.customer] = best]
    /\ possible_caregivers' = sorted_possible_caregivers(
                                  NextGroup.customer, NextBlock, caregivers,
                                  caregiver_hours, caregiver_daily_visits)
    /\ customer' = NextGroup.customer
    /\ customer_visits' = NextBlock
    /\ pending' = block_commit_order(NextBlock)
    /\ ci' = ci + 1
    /\ pc' = "block"
    /\ UNCHANGED <<inputs, route, ledger, eligible>>

\* solver.py 27-32, 36: no caregiver can take the whole block; its visits go
\* to the per-visit loop in start order.
BlockFailed ==
    /\ pc = "customer"
    /\ ci < Len(visits_by_customer)
    /\ find_best_caregiver_for_customer(
           NextGroup.customer, NextBlock, caregivers,
           caregiver_hours, caregiver_daily_visits) = None
    /\ chosen' = None
    /\ possible_caregivers' = <<>>
    /\ customer' = NextGroup.customer
    /\ customer_visits' = NextBlock
    /\ pending' = NextBlock
    /\ ci' = ci + 1
    /\ pc' = "visit"
    /\ UNCHANGED <<inputs, route, ledger, eligible, block_winner>>

\* solver.py 198-199: one assign_visit of the block's loop.
CommitBlockVisit ==
    /\ pc = "block"
    /\ assign_visit(Head(pending), chosen)
    /\ pending' = Tail(pending)
    /\ pc' = IF Tail(pending) = <<>> THEN "customer" ELSE "block"
    /\ UNCHANGED <<inputs, route, ci, customer, customer_visits, chosen, possible_caregivers,
                   eligible, block_winner>>

\* solver.py 37-41: the per-visit loop finds a caregiver for its next visit.
VisitChosen ==
    /\ pc = "visit"
    /\ LET best == find_best_caregiver_for_visit(
                       Head(pending), caregivers, caregiver_hours, caregiver_daily_visits)
       IN  /\ best # None
           /\ chosen' = best
    /\ eligible' = sorted_eligible(Head(pending), caregivers, caregiver_hours,
                                   caregiver_daily_visits)
    /\ pc' = "assign"
    /\ UNCHANGED <<inputs, route, ledger, ci, customer, customer_visits, pending,
                   possible_caregivers, block_winner>>

\* solver.py 37-41: no caregiver is eligible; the visit stays unassigned.
VisitUnassigned ==
    /\ pc = "visit"
    /\ find_best_caregiver_for_visit(
           Head(pending), caregivers, caregiver_hours, caregiver_daily_visits) = None
    /\ chosen' = None
    /\ eligible' = <<>>
    /\ pending' = Tail(pending)
    /\ pc' = IF Tail(pending) = <<>> THEN "customer" ELSE "visit"
    /\ UNCHANGED <<inputs, route, ledger, ci, customer, customer_visits, possible_caregivers,
                   block_winner>>

\* solver.py 42: the per-visit loop commits its visit.
CommitVisit ==
    /\ pc = "assign"
    /\ assign_visit(Head(pending), chosen)
    /\ pending' = Tail(pending)
    /\ pc' = IF Tail(pending) = <<>> THEN "customer" ELSE "visit"
    /\ UNCHANGED <<inputs, route, ci, customer, customer_visits, chosen, possible_caregivers,
                   eligible, block_winner>>

\* solver.py 43: every customer is done; solve returns assignments.
Return ==
    /\ pc = "customer"
    /\ ci = Len(visits_by_customer)
    /\ pc' = "done"
    /\ UNCHANGED <<inputs, route, ledger, ci, customer, customer_visits, pending, chosen,
                   possible_caregivers, eligible, block_winner>>

Next ==
    \/ BlockChosen
    \/ BlockFailed
    \/ CommitBlockVisit
    \/ VisitChosen
    \/ VisitUnassigned
    \/ CommitVisit
    \/ Return

Spec == Init /\ [][Next]_vars

\* ------------------------------------------------ RouteOrderer on its own

\* Largest number of visits in one day's set given to RouteOrderer.
MaxDayVisits == 4

\* Spans of one or two slots in a day long enough for MaxDayVisits visits
\* with a gap; RouteOrderer never looks at the day of a visit.
DaySpans == {sp \in (0 .. MaxDayVisits) \X (1 .. (MaxDayVisits + 1)) :
                sp[1] < sp[2] /\ sp[2] - sp[1] <= 2}

PairwiseDisjoint(spans) ==
    \A i, j \in DOMAIN spans :
        i # j => (spans[i][2] <= spans[j][1] \/ spans[j][2] <= spans[i][1])

\* One caregiver's visits of one day, pairwise non-overlapping, in any list
\* order, in up to three neighborhoods; RouteOrderer is about to run on them.
RouteInit ==
    /\ \E k \in 1 .. MaxDayVisits :
           \E visit_spans \in [1 .. k -> DaySpans] :
               /\ PairwiseDisjoint(visit_spans)
               /\ \E visit_neighborhoods \in CanonicalSeqs(k, {1, 2, 3}) :
                      visits = MakeVisits([i \in 1 .. k |-> 1], visit_spans,
                                          [i \in 1 .. k |-> 1], visit_neighborhoods)
    /\ caregivers = <<>>
    /\ visits_by_customer = group_visits_by_customer(visits)
    /\ assignments = <<>>
    /\ caregiver_hours = <<>>
    /\ caregiver_daily_visits = <<>>
    /\ pc = "route_start"
    /\ ci = 0
    /\ customer = 1
    /\ customer_visits = visits
    /\ pending = <<>>
    /\ chosen = None
    /\ possible_caregivers = <<>>
    /\ eligible = <<>>
    /\ block_winner = <<>>
    /\ to_assign = <<>>
    /\ ordered = <<>>

solve_state ==
    << ledger, ci, customer, customer_visits, pending, chosen, possible_caregivers,
       eligible, block_winner >>

\* solver.py 172-178: the sequence starts at the earliest visit.
RouteStart ==
    /\ pc = "route_start"
    /\ LET current == visits[MinIndex(visits, ByStart)]
       IN  /\ ordered' = <<current>>
           /\ to_assign' = RemoveAt(visits, IndexOf(visits, current))
    /\ pc' = "route"
    /\ UNCHANGED <<inputs, solve_state>>

\* solver.py 192-194: next_visit is appended and becomes current.
Append_next_visit ==
    LET current == ordered[Len(ordered)]
        next_visit == route_next(current, to_assign)
    IN  /\ ordered' = Append(ordered, next_visit)
        /\ to_assign' = RemoveAt(to_assign, IndexOf(to_assign, next_visit))
        /\ UNCHANGED <<inputs, solve_state, pc>>

\* solver.py 181-183: a later visit of the same neighborhood is left.
RouteSameNeighborhood ==
    /\ pc = "route"
    /\ to_assign # <<>>
    /\ same_neighborhood_after(ordered[Len(ordered)], to_assign) # <<>>
    /\ Append_next_visit

\* solver.py 184-188: none of the same neighborhood, but a later visit is left.
RouteLater ==
    /\ pc = "route"
    /\ to_assign # <<>>
    /\ same_neighborhood_after(ordered[Len(ordered)], to_assign) = <<>>
    /\ starting_after(ordered[Len(ordered)], to_assign) # <<>>
    /\ Append_next_visit

\* solver.py 189-191: only visits that start before current's end are left.
RouteEarlier ==
    /\ pc = "route"
    /\ to_assign # <<>>
    /\ starting_after(ordered[Len(ordered)], to_assign) = <<>>
    /\ Append_next_visit

\* solver.py 179, 195: the day's set is exhausted.
RouteEnd ==
    /\ pc = "route"
    /\ to_assign = <<>>
    /\ pc' = "routed"
    /\ UNCHANGED <<inputs, route, solve_state>>

RouteNext ==
    \/ RouteStart
    \/ RouteSameNeighborhood
    \/ RouteLater
    \/ RouteEarlier
    \/ RouteEnd

SpecRoute == RouteInit /\ [][RouteNext]_vars

\* ------------------------------------------------- vocabulary of the claims

\* The visit with a given id (ids are the positions in the visits list).
VisitOf(visit_id) == visits[visit_id]

\* The visits the output assigns to a caregiver.
AssignedTo(caregiver_id) ==
    {VisitOf(assignments[i].visit_id) :
        i \in {k \in DOMAIN assignments : assignments[k].caregiver_id = caregiver_id}}

AssignedIds == {assignments[i].visit_id : i \in DOMAIN assignments}
Unassigned == {visits[i] : i \in {k \in DOMAIN visits : visits[k].id \notin AssignedIds}}

RECURSIVE TotalHours(_)
TotalHours(vs) ==
    IF vs = {} THEN 0
    ELSE LET v == CHOOSE x \in vs : TRUE IN (v.end - v.start) + TotalHours(vs \ {v})

CalendarDay(t) == t \div SlotsPerDay
WeekdayOf(t) == CalendarDay(t) % DaysPerWeek
Disjoint(v, w) == v.end <= w.start \/ w.end <= v.start

\* Static qualification: the skill and an availability window.
Qualified(caregiver, v) ==
    /\ v.required_skill \in caregiver.skills
    /\ \E k \in DOMAIN caregiver.availability :
           caregiver.availability[k].from <= v.start /\ v.end <= caregiver.availability[k].to

\* Eligibility as the claims word it, read off the output: skill,
\* availability, no overlap with the caregiver's visits of the same weekday,
\* and the hour cap.
CanTake(caregiver, v) ==
    /\ Qualified(caregiver, v)
    /\ \A w \in AssignedTo(caregiver.id) :
           WeekdayOf(w.start) = WeekdayOf(v.start) => Disjoint(v, w)
    /\ TotalHours(AssignedTo(caregiver.id)) + (v.end - v.start) <= caregiver.max_hours

\* The solver stands where a decision has just been taken and nothing of it
\* is committed yet: the Ledger is the one the decision was taken against.
BlockJustChosen == pc = "block" /\ pending # <<>> /\ Len(pending) = Len(customer_visits)
BlockJustFailed == pc = "visit" /\ pending = customer_visits
VisitJustChosen == pc = "assign"

\* ----------------------------------------------------------------- C1

\* C1: for every caregiver, the durations of the visits the output assigns to
\* it sum to at most its max_hours, in every state solve goes through, that
\* is after every single assign_visit, of a block or of the per-visit loop.
C1_HoursWithinCap ==
    \A i \in DOMAIN caregivers :
        TotalHours(AssignedTo(caregivers[i].id)) <= caregivers[i].max_hours

\* A caregiver filled to its cap by a block, and a visit left out that the
\* cap alone keeps from it.
C1_Witness ==
    /\ pc = "done"
    /\ \E i \in DOMAIN caregivers : \E v \in Unassigned :
           /\ TotalHours(AssignedTo(caregivers[i].id)) = caregivers[i].max_hours
           /\ block_winner[v.customer] = None
           /\ \E w \in AssignedTo(caregivers[i].id) : block_winner[w.customer] = caregivers[i].id
           /\ Qualified(caregivers[i], v)
           /\ \A w \in AssignedTo(caregivers[i].id) : Disjoint(v, w)

\* ----------------------------------------------------------------- C2

\* C2: no two distinct visits assigned to the same caregiver and starting on
\* the same calendar day overlap: their [start, end) intervals are disjoint.
C2_NoSameDayOverlap ==
    \A i \in DOMAIN caregivers : \A v, w \in AssignedTo(caregivers[i].id) :
        (v # w /\ CalendarDay(v.start) = CalendarDay(w.start)) => Disjoint(v, w)

\* A caregiver holds two visits of one calendar day, one from a block and one
\* from the per-visit loop, and a visit overlapping one of them went elsewhere.
C2_Witness ==
    /\ pc = "done"
    /\ \E i \in DOMAIN caregivers : \E v, w \in AssignedTo(caregivers[i].id) :
           /\ v # w
           /\ CalendarDay(v.start) = CalendarDay(w.start)
           /\ block_winner[v.customer] = caregivers[i].id
           /\ block_winner[w.customer] = None
           /\ \E u \in {visits[k] : k \in DOMAIN visits} \ AssignedTo(caregivers[i].id) :
                  /\ ~Disjoint(u, v)
                  /\ Qualified(caregivers[i], u)

\* ----------------------------------------------------------------- C3

\* C3: every assignment pairs a visit with a caregiver that has the visit's
\* required skill and an availability window covering the visit.
C3_AssignedAreQualified ==
    \A k \in DOMAIN assignments : \E i \in DOMAIN caregivers :
        /\ caregivers[i].id = assignments[k].caregiver_id
        /\ Qualified(caregivers[i], VisitOf(assignments[k].visit_id))

\* The first caregiver lacks the skill of one visit and a window for another;
\* both went to the second caregiver.
C3_Witness ==
    /\ pc = "done"
    /\ Len(caregivers) = 2
    /\ \E v, w \in AssignedTo(caregivers[2].id) :
           /\ v.required_skill \notin caregivers[1].skills
           /\ w.required_skill \in caregivers[1].skills
           /\ ~Qualified(caregivers[1], w)

\* ----------------------------------------------------------------- C4

\* C4: when solve returns, no caregiver is eligible (skill, availability,
\* same-weekday overlap, hour cap, against the final Ledger) for any visit
\* that is absent from the output.
C4_UnassignedHaveNoTaker ==
    pc = "done" =>
        \A v \in Unassigned : \A i \in DOMAIN caregivers : ~CanTake(caregivers[i], v)

\* A visit is left out although a caregiver is qualified for it, while
\* another visit of the same customer was assigned.
C4_Witness ==
    /\ pc = "done"
    /\ \E v \in Unassigned :
           /\ \E i \in DOMAIN caregivers : Qualified(caregivers[i], v)
           /\ \E k \in DOMAIN assignments : VisitOf(assignments[k].visit_id).customer = v.customer

\* ----------------------------------------------------------------- C5

IndexOfCaregiver(caregiver_id) == CHOOSE i \in DOMAIN caregivers : caregivers[i].id = caregiver_id

\* The caregiver passes the whole-block trial: taking the block's visits one
\* after the other in start order, it stays eligible for each.
PassesBlock(caregiver, block) ==
    \A k \in DOMAIN block :
        LET taken == AssignedTo(caregiver.id) \cup {block[j] : j \in 1 .. (k - 1)}
        IN  /\ Qualified(caregiver, block[k])
            /\ \A w \in taken :
                   WeekdayOf(w.start) = WeekdayOf(block[k].start) => Disjoint(block[k], w)
            /\ TotalHours(taken) + (block[k].end - block[k].start) <= caregiver.max_hours

\* Changes of neighborhood between visits that follow each other in start order.
AdjacentChanges(vs) ==
    Cardinality({pair \in vs \X vs :
                    /\ pair[1].start < pair[2].start
                    /\ pair[1].neighborhood # pair[2].neighborhood
                    /\ ~\E u \in vs : pair[1].start < u.start /\ u.start < pair[2].start})

\* The switches of a caregiver's weekdays in `days` once the block is added.
SwitchesOn(days, caregiver, block) ==
    LET after == AssignedTo(caregiver.id) \cup {block[k] : k \in DOMAIN block}
    IN  SumSeq([d \in 1 .. DaysPerWeek |->
                   IF (d - 1) \in days
                   THEN AdjacentChanges({w \in after : WeekdayOf(w.start) = d - 1})
                   ELSE 0])

BlockDays(block) == {WeekdayOf(block[k].start) : k \in DOMAIN block}

\* The score tuple of the claim: switches with the block added, hours
\* before the block, minus the visits of the customer already held.
BlockScore(caregiver, cust, block) ==
    << SwitchesOn(Weekdays, caregiver, block),
       TotalHours(AssignedTo(caregiver.id)),
       0 - Cardinality({w \in AssignedTo(caregiver.id) : w.customer = cust}) >>

\* i beats j: a smaller tuple, or the same tuple and earlier in the list.
Beats(score_i, i, score_j, j) ==
    TupleLess(score_i, score_j) \/ (score_i = score_j /\ i < j)

\* C5: if a caregiver passes the whole-block trial, the block goes to one
\* caregiver, the passing one with the lexicographically smallest
\* (switches, hours before the block, -continuity_bonus), the earliest in the
\* caregivers list on a tie; the per-visit loop is entered only when none
\* passes; and every visit of the customer ends assigned to that caregiver.
C5_BlockGoesToBest ==
    /\ BlockJustChosen =>
           /\ block_winner[customer] = chosen
           /\ \E i \in DOMAIN caregivers :
                  /\ caregivers[i].id = chosen
                  /\ PassesBlock(caregivers[i], customer_visits)
                  /\ \A j \in DOMAIN caregivers \ {i} :
                         PassesBlock(caregivers[j], customer_visits) =>
                             Beats(BlockScore(caregivers[i], customer, customer_visits), i,
                                   BlockScore(caregivers[j], customer, customer_visits), j)
    /\ BlockJustFailed =>
           \A i \in DOMAIN caregivers : ~PassesBlock(caregivers[i], customer_visits)
    /\ pc = "done" =>
           \A k \in DOMAIN visits :
               block_winner[visits[k].customer] # None =>
                   visits[k] \in AssignedTo(block_winner[visits[k].customer])

\* A block was given to a caregiver with fewer switches although another
\* passing caregiver had fewer hours.
C5_Witness ==
    /\ BlockJustChosen
    /\ \E j \in DOMAIN caregivers :
           LET i == IndexOfCaregiver(chosen)
           IN  /\ PassesBlock(caregivers[j], customer_visits)
               /\ TotalHours(AssignedTo(caregivers[j].id)) < TotalHours(AssignedTo(chosen))
               /\ SwitchesOn(Weekdays, caregivers[i], customer_visits)
                      < SwitchesOn(Weekdays, caregivers[j], customer_visits)

\* ----------------------------------------------------------------- C6

\* The neighborhood test of the claim: the caregiver's latest visit on the
\* visit's weekday exists and has the visit's neighborhood.
TravelBonus(caregiver, v) ==
    LET same_day == {w \in AssignedTo(caregiver.id) : WeekdayOf(w.start) = WeekdayOf(v.start)}
    IN  IF \E w \in same_day :
               /\ \A u \in same_day : u.start <= w.start
               /\ w.neighborhood = v.neighborhood
        THEN 1 ELSE 0

VisitScore(caregiver, v) ==
    << 0 - TravelBonus(caregiver, v), TotalHours(AssignedTo(caregiver.id)) >>

WinnerOnBlockDays ==
    CHOOSE i \in DOMAIN caregivers :
        /\ PassesBlock(caregivers[i], customer_visits)
        /\ \A j \in DOMAIN caregivers \ {i} :
               PassesBlock(caregivers[j], customer_visits) =>
                   Beats(<<SwitchesOn(BlockDays(customer_visits), caregivers[i], customer_visits),
                           TotalHours(AssignedTo(caregivers[i].id))>>, i,
                         <<SwitchesOn(BlockDays(customer_visits), caregivers[j], customer_visits),
                           TotalHours(AssignedTo(caregivers[j].id))>>, j)

\* C8 as claimed: the switches of a candidate's score are those of the
\* weekdays on which a visit of the block is placed, and switches on other
\* days do not change which caregiver wins the block.
C8_SwitchesOnBlockDaysOnly ==
    BlockJustChosen =>
        /\ \A k \in DOMAIN possible_caregivers :
               possible_caregivers[k][1] =
                   SwitchesOn(BlockDays(customer_visits),
                              caregivers[IndexOfCaregiver(possible_caregivers[k][4])],
                              customer_visits)
        /\ chosen = caregivers[WinnerOnBlockDays].id

\* C8 amended: the switches of a candidate's score are those of all the
\* weekdays of its Ledger with the block added: the switches of the block's
\* weekdays plus the switches already present on its other weekdays.
C8_SwitchesOnAllDays ==
    BlockJustChosen =>
        \A k \in DOMAIN possible_caregivers :
            LET caregiver == caregivers[IndexOfCaregiver(possible_caregivers[k][4])]
            IN  possible_caregivers[k][1] =
                    SwitchesOn(BlockDays(customer_visits), caregiver, customer_visits)
                    + SwitchesOn(Weekdays \ BlockDays(customer_visits), caregiver, <<>>)

\* A block is won by a caregiver that would have lost it had the switches of
\* the other candidate's untouched weekdays not been counted.
C8_Witness ==
    /\ BlockJustChosen
    /\ chosen # caregivers[WinnerOnBlockDays].id
    /\ SwitchesOn(Weekdays \ BlockDays(customer_visits), caregivers[WinnerOnBlockDays], <<>>) > 0

\* ----------------------------------------------------------------- C9

\* C9: no two distinct visits assigned to the same caregiver have
\* intersecting [start, end) intervals, whatever the days they start on.
C9_NoDoubleBooking ==
    \A i \in DOMAIN caregivers : \A v, w \in AssignedTo(caregivers[i].id) :
        v # w => Disjoint(v, w)

\* ----------------------------------------------------------------- C10

\* C10: continuity_bonus is 0 for every candidate of every block, so the
\* block goes to the candidate with the smallest (switches, hours), the
\* earliest in the caregivers list on a tie.
C10_NoContinuityBonus ==
    /\ \A k \in DOMAIN possible_caregivers : possible_caregivers[k][3] = 0
    /\ BlockJustChosen =>
           \A k \in 2 .. Len(possible_caregivers) :
               Beats(<<possible_caregivers[1][1], possible_caregivers[1][2]>>,
                     IndexOfCaregiver(possible_caregivers[1][4]),
                     <<possible_caregivers[k][1], possible_caregivers[k][2]>>,
                     IndexOfCaregiver(possible_caregivers[k][4]))

\* A block is scored for two candidates, one of which holds visits already,
\* and the visits of the block's customer are not consecutive in the visits
\* list: a visit of another customer lies between two of them.
C10_Witness ==
    /\ BlockJustChosen
    /\ Len(possible_caregivers) >= 2
    /\ \E k \in DOMAIN possible_caregivers : possible_caregivers[k][2] > 0
    /\ \E a, b \in DOMAIN visits :
           a < b /\ visits[b].customer = customer /\ visits[a].customer # customer
               /\ \E c \in 1 .. (a - 1) : visits[c].customer = customer

\* ----------------------------------------------------------------- C7

\* Changes of neighborhood between neighbours of a sequence.
SequenceChanges(seq) ==
    Cardinality({i \in 1 .. (Len(seq) - 1) : seq[i].neighborhood # seq[i + 1].neighborhood})

\* No visit of another neighborhood lies, in start order, between two visits
\* of one neighborhood.
NeighborhoodsContiguous(vs) ==
    \A i, j, k \in DOMAIN vs :
        (vs[i].start < vs[j].start /\ vs[j].start < vs[k].start
            /\ vs[i].neighborhood = vs[k].neighborhood)
        => vs[j].neighborhood = vs[i].neighborhood

\* C7 as claimed: for pairwise non-overlapping visits of one day, the
\* switches counted in start order (the switches score) equal the changes of
\* neighborhood along RouteOrderer's sequence.
C7_RouteCountEqualsScore ==
    pc = "routed" => SequenceChanges(ordered) = switches_in_day(visits)

\* C7, amended: along RouteOrderer's sequence the neighborhood changes never
\* exceed the switches counted in start order, and the two are equal exactly
\* when the visits of each neighborhood are contiguous in start order.
C7_RouteCountAtMostScore ==
    pc = "routed" =>
        /\ SequenceChanges(ordered) <= switches_in_day(visits)
        /\ (SequenceChanges(ordered) = switches_in_day(visits))
               <=> NeighborhoodsContiguous(visits)

\* A routed day of three or more visits with a switch, where both counts agree.
C7_Witness ==
    /\ pc = "routed"
    /\ Len(visits) >= 3
    /\ NeighborhoodsContiguous(visits)
    /\ switches_in_day(visits) >= 1
    /\ SequenceChanges(ordered) = switches_in_day(visits)

====
